---- MODULE Spec2Model ----
(***************************************************************************)
(* libredstone tag tree (src/src/tag.c) as a state machine.                *)
(*                                                                         *)
(* The heap holds at most MaxTags RSTag structures, identified by 1..MaxTags *)
(* (NULL is 0).  Every public function of tag.c is an operator from a heap *)
(* record to a heap record, written statement by statement after the C     *)
(* code; an action applies one public function to arguments chosen by the  *)
(* client and commits the resulting heap.                                  *)
(*                                                                         *)
(* The client is disciplined: it passes only live tags, and it calls       *)
(* rs_tag_unref only on a tag it holds a reference to (taken with          *)
(* rs_tag_ref) or on a floating tag (count 0).                             *)
(***************************************************************************)
EXTENDS Integers, Sequences, FiniteSets, TLC

\* ---------------------------------------------------------------- bounds
MaxTags == 3
MaxLen == 2
MaxRef == 2
MaxHeld == 1
MaxArgs == 2
MaxCalls == 5
MaxSlot == 1

\* ------------------------------------------------------------- constants
NULL == 0
DIVERGE == -1

RS_TAG_END == "TAG_End"
RS_TAG_BYTE == "TAG_Byte"
RS_TAG_SHORT == "TAG_Short"
RS_TAG_INT == "TAG_Int"
RS_TAG_LONG == "TAG_Long"
RS_TAG_LIST == "TAG_List"
RS_TAG_COMPOUND == "TAG_Compound"

IntKinds == {RS_TAG_BYTE, RS_TAG_SHORT, RS_TAG_INT, RS_TAG_LONG}
TreeKinds == {RS_TAG_BYTE, RS_TAG_LIST, RS_TAG_COMPOUND}
Keys == {"a", "b"}
Tags == 1..MaxTags
Indexes == 0..MaxLen

\* ------------------------------------------------ 64-bit integers (int64_t)
\* An int64_t is its two's-complement bit pattern, four 16-bit limbs, least
\* significant first.
Zero64 == <<0, 0, 0, 0>>

\* the bits of the union member written by rs_tag_set_integer: the low w bits
Width(type) ==
    CASE type = RS_TAG_BYTE -> 8
      [] type = RS_TAG_SHORT -> 16
      [] type = RS_TAG_INT -> 32
      [] OTHER -> 64

\* conversion int64_t -> intw_t: keeps the low w bits
Truncate(v, w) ==
    CASE w = 8 -> <<v[1] % 256, 0, 0, 0>>
      [] w = 16 -> <<v[1], 0, 0, 0>>
      [] w = 32 -> <<v[1], v[2], 0, 0>>
      [] OTHER -> v

\* conversion intw_t -> int64_t: copies the sign bit into the upper bits
SignExtend(s, w) ==
    CASE w = 8 -> IF s[1] >= 128 THEN <<s[1] + 65280, 65535, 65535, 65535>> ELSE s
      [] w = 16 -> IF s[1] >= 32768 THEN <<s[1], 65535, 65535, 65535>> ELSE s
      [] w = 32 -> IF s[2] >= 32768 THEN <<s[1], s[2], 65535, 65535>> ELSE s
      [] OTHER -> s

\* ------------------------------------------------------------------ state
VARIABLES
    alloc,      \* alloc[t]: "none" (never allocated), "live", "freed"
    type,       \* self->type
    refcount,   \* self->refcount
    intval,     \* the integer union member (its low Width(type) bits)
    ltype,      \* self->list.type
    items,      \* self->list.items: the cells' data, head first
    compound,   \* self->compound: the cells' nodes [key, value], head first
    calls,      \* the number of calls the client has made
    status,     \* "run", or how the process ended: "segv", "overflow", "uaf", "exit"
    held,       \* held[t]: references the client took with rs_tag_ref and still owns
    last,       \* the last call: its name, arguments and result
    file,       \* the region file at path: whether it exists, and its chunks
    region      \* the RSRegion handle of the client

vars == <<alloc, type, refcount, intval, ltype, items, compound, calls, status, held, last,
          file, region>>

\* the heap as one value, so that the C functions compose
Cur ==
    [alloc |-> alloc, type |-> type, refcount |-> refcount, intval |-> intval,
     ltype |-> ltype, items |-> items, compound |-> compound, status |-> status,
     log |-> FALSE]

EmptyHeap ==
    [alloc |-> [t \in Tags |-> "none"],
     type |-> [t \in Tags |-> RS_TAG_END],
     refcount |-> [t \in Tags |-> 0],
     intval |-> [t \in Tags |-> Zero64],
     ltype |-> [t \in Tags |-> RS_TAG_END],
     items |-> [t \in Tags |-> <<>>],
     compound |-> [t \in Tags |-> <<>>],
     status |-> "run",
     log |-> FALSE]


\* ------------------------------------------------------------ diagnostics
\* a log that terminates the process whatever the channel
_rs_error_log_fatal(h, error) ==
    [h EXCEPT !.log = TRUE, !.status = IF @ = "run" THEN "exit" ELSE @]

\* error.c: prints the message; terminates the process only for an error
_rs_error_log(h, error) ==
    [h EXCEPT !.log = TRUE, !.status = IF error /\ @ = "run" THEN "exit" ELSE @]

\* error.h: rs_critical is the non-fatal channel, and rs_return_if_fail(test)
\* reports a failed test on it before returning
rs_critical(h) == _rs_error_log(h, FALSE)

\* ------------------------------------------------------------------ RSList
rs_list_size(l) == Len(l)

\* the data of cell i (counted from 0), NULL when there is no such cell
rs_list_nth(l, i) == IF i < Len(l) THEN l[i + 1] ELSE NULL

\* the list without cell i (counted from 0)
rs_list_remove(l, i) == SubSeq(l, 1, i) \o SubSeq(l, i + 2, Len(l))

\* a new cell after the last one
rs_list_push(l, data) == Append(l, data)

rs_list_reverse(l) == [k \in 1..Len(l) |-> l[Len(l) + 1 - k]]

\* --------------------------------------------------------------- tag basics
Running(h) == h.status = "run"

NextTag(h) == CHOOSE t \in Tags : h.alloc[t] = "none" /\ \A u \in 1..(t - 1) : h.alloc[u] # "none"

\* rs_new0 zeroes the structure: count 0 (floating), list.type RS_TAG_END
rs_tag_new0(h, kind) ==
    IF kind = RS_TAG_END
    THEN [h |-> rs_critical(h), ret |-> NULL]
    ELSE LET self == NextTag(h)
         IN [h |-> [h EXCEPT !.alloc[self] = "live", !.type[self] = kind,
                             !.refcount[self] = 0],
             ret |-> self]

rs_tag_get_type(h, self) == IF self = NULL THEN RS_TAG_END ELSE h.type[self]

rs_tag_ref(h, self) ==
    IF ~Running(h) THEN h
    ELSE IF self = NULL THEN rs_critical(h)
    ELSE [h EXCEPT !.refcount[self] = @ + 1]

\* the children a free releases, in the order it releases them
Children(h, self) ==
    IF h.type[self] = RS_TAG_LIST THEN h.items[self]
    ELSE IF h.type[self] = RS_TAG_COMPOUND
    THEN [k \in 1..Len(h.compound[self]) |-> h.compound[self][k].value]
    ELSE <<>>

RECURSIVE rs_tag_unref(_, _, _)
RECURSIVE _rs_tag_free(_, _, _)
RECURSIVE UnrefEach(_, _, _)

\* rs_list_foreach(items, rs_tag_unref), and the Compound's loop over its nodes
UnrefEach(h, cells, stack) ==
    IF cells = <<>> THEN h
    ELSE UnrefEach(rs_tag_unref(h, Head(cells), stack), Tail(cells), stack)

\* stack: the tags whose _rs_tag_free is in progress (the C call stack).  A free
\* that is entered again for a tag on the stack recurses without end; touching a
\* tag that was already freed is a use after free.
_rs_tag_free(h, self, stack) ==
    IF ~Running(h) THEN h
    ELSE IF self \in stack THEN [h EXCEPT !.status = "overflow"]
    ELSE LET h1 == UnrefEach(h, Children(h, self), stack \cup {self})
         IN IF ~Running(h1) THEN h1
            ELSE [h1 EXCEPT !.alloc[self] = "freed"]

rs_tag_unref(h, self, stack) ==
    IF ~Running(h) THEN h
    ELSE IF self = NULL THEN rs_critical(h)
    ELSE IF h.alloc[self] # "live" THEN [h EXCEPT !.status = "uaf"]
    ELSE LET h1 == IF h.refcount[self] > 0
                   THEN [h EXCEPT !.refcount[self] = @ - 1]
                   ELSE h
         IN IF h1.refcount[self] = 0 THEN _rs_tag_free(h1, self, stack) ELSE h1

\* ---------------------------------------------------------------- integers
\* a getter that reads the member without widening it as a signed value
rs_tag_get_integer_unsigned(h, self) ==
    IF self = NULL THEN Zero64
    ELSE IF h.type[self] \in IntKinds THEN h.intval[self]
    ELSE Zero64

rs_tag_get_integer(h, self) ==
    IF self = NULL THEN Zero64
    ELSE IF h.type[self] \in IntKinds
    THEN SignExtend(h.intval[self], Width(h.type[self]))
    ELSE Zero64

\* whether rs_tag_get_integer reports on the diagnostic channel
rs_tag_get_integer_log(h, self) == self = NULL \/ h.type[self] \notin IntKinds

rs_tag_set_integer(h, self, val) ==
    IF ~Running(h) THEN h
    ELSE IF self = NULL THEN rs_critical(h)
    ELSE IF h.type[self] \in IntKinds
    THEN [h EXCEPT !.intval[self] = Truncate(val, Width(h.type[self]))]
    ELSE rs_critical(h)

\* ------------------------------------------------------------------- lists
rs_tag_list_get_type(h, self) ==
    IF self = NULL \/ h.type[self] # RS_TAG_LIST THEN RS_TAG_END ELSE h.ltype[self]

\* a setter that does not look at the list's items
rs_tag_list_set_type_any(h, self, kind) ==
    IF ~Running(h) THEN h
    ELSE IF self = NULL \/ h.type[self] # RS_TAG_LIST THEN rs_critical(h)
    ELSE [h EXCEPT !.ltype[self] = kind]

rs_tag_list_set_type(h, self, kind) ==
    IF ~Running(h) THEN h
    ELSE IF self = NULL \/ h.type[self] # RS_TAG_LIST THEN rs_critical(h)
    ELSE IF h.items[self] # <<>> THEN rs_critical(h)
    ELSE [h EXCEPT !.ltype[self] = kind]

rs_tag_list_get_length(h, self) ==
    IF self = NULL \/ h.type[self] # RS_TAG_LIST THEN 0 ELSE rs_list_size(h.items[self])

rs_tag_list_get(h, self, i) ==
    IF self = NULL \/ h.type[self] # RS_TAG_LIST THEN NULL ELSE rs_list_nth(h.items[self], i)

\* the unref comes first, the cell is unlinked after it: a free of self in
\* between makes the write to self->list.items a use after free
rs_tag_list_delete(h, self, i) ==
    IF ~Running(h) THEN h
    ELSE IF self = NULL \/ h.type[self] # RS_TAG_LIST THEN rs_critical(h)
    ELSE IF i < Len(h.items[self])
    THEN LET h1 == rs_tag_unref(h, h.items[self][i + 1], {})
         IN IF ~Running(h1) THEN h1
            ELSE IF h1.alloc[self] # "live" THEN [h1 EXCEPT !.status = "uaf"]
            ELSE [h1 EXCEPT !.items[self] = rs_list_remove(@, i)]
    ELSE h

\* len - 1 is computed in uint32_t: on an empty list it wraps to 0xFFFFFFFF,
\* rs_list_nth_cell finds no such cell and last->next writes through NULL
rs_tag_list_insert(h, self, i, tag) ==
    IF ~Running(h) THEN h
    ELSE IF self = NULL \/ h.type[self] # RS_TAG_LIST THEN rs_critical(h)
    ELSE IF tag = NULL THEN rs_critical(h)
    ELSE IF h.type[tag] # h.ltype[self] THEN rs_critical(h)
    ELSE LET h1 == rs_tag_ref(h, tag)
             len == rs_tag_list_get_length(h1, self)
         IN IF i = 0
            THEN [h1 EXCEPT !.items[self] = <<tag>> \o @]
            ELSE IF i >= len
            THEN IF len = 0
                 THEN [h1 EXCEPT !.status = "segv"]
                 ELSE [h1 EXCEPT !.items[self] = @ \o <<tag>>]
            ELSE [h1 EXCEPT !.items[self] =
                      SubSeq(@, 1, i) \o <<tag>> \o SubSeq(@, i + 1, Len(@))]

rs_tag_list_reverse(h, self) ==
    IF ~Running(h) THEN h
    ELSE IF self = NULL \/ h.type[self] # RS_TAG_LIST THEN rs_critical(h)
    ELSE [h EXCEPT !.items[self] = rs_list_reverse(@)]

\* --------------------------------------------------------------- compounds
\* the index (from 1) of the first node whose key is key, 0 when there is none
FirstNode(nodes, key) ==
    IF \E k \in 1..Len(nodes) : nodes[k].key = key
    THEN CHOOSE k \in 1..Len(nodes) :
             nodes[k].key = key /\ \A j \in 1..(k - 1) : nodes[j].key # key
    ELSE 0

rs_tag_compound_get_length(h, self) ==
    IF self = NULL \/ h.type[self] # RS_TAG_COMPOUND THEN 0
    ELSE rs_list_size(h.compound[self])

rs_tag_compound_get(h, self, key) ==
    IF self = NULL \/ h.type[self] # RS_TAG_COMPOUND THEN NULL
    ELSE LET k == FirstNode(h.compound[self], key)
         IN IF k = 0 THEN NULL ELSE h.compound[self][k].value

\* unlinks the cell; the node, its key and its value are left as they are
rs_tag_compound_delete(h, self, key) ==
    IF ~Running(h) THEN h
    ELSE IF self = NULL \/ h.type[self] # RS_TAG_COMPOUND THEN rs_critical(h)
    ELSE LET k == FirstNode(h.compound[self], key)
         IN IF k = 0 THEN h
            ELSE [h EXCEPT !.compound[self] = rs_list_remove(@, k - 1)]

\* a set that does not delete the entry of the same name first
rs_tag_compound_set_keep(h, self, key, value) ==
    IF ~Running(h) THEN h
    ELSE IF self = NULL \/ h.type[self] # RS_TAG_COMPOUND THEN rs_critical(h)
    ELSE IF value = NULL THEN rs_critical(h)
    ELSE LET h2 == rs_tag_ref(h, value)
         IN [h2 EXCEPT !.compound[self] = rs_list_push(@, [key |-> key, value |-> value])]

rs_tag_compound_set(h, self, key, value) ==
    IF ~Running(h) THEN h
    ELSE IF self = NULL \/ h.type[self] # RS_TAG_COMPOUND THEN rs_critical(h)
    ELSE IF value = NULL THEN rs_critical(h)
    ELSE LET h1 == rs_tag_compound_delete(h, self, key)
             h2 == rs_tag_ref(h1, value)
         IN [h2 EXCEPT !.compound[self] = rs_list_push(@, [key |-> key, value |-> value])]

\* a chain that looks up the first name and ignores the names after it
rs_tag_compound_get_chainv_first(h, self, ap) ==
    IF self = NULL \/ h.type[self] # RS_TAG_COMPOUND THEN NULL
    ELSE IF ap = <<>> THEN self
    ELSE rs_tag_compound_get(h, self, Head(ap))

RECURSIVE ChainLoop(_, _, _)

\* the while loop: it ends when tag is NULL or when va_arg yields the NULL that
\* ends the names (ap exhausted); a tag that is not a Compound ends the call
ChainLoop(h, tag, ap) ==
    IF tag = NULL \/ ap = <<>> THEN tag
    ELSE IF h.type[tag] # RS_TAG_COMPOUND THEN NULL
    ELSE ChainLoop(h, rs_tag_compound_get(h, tag, Head(ap)), Tail(ap))

\* ap: the names, without the NULL that ends them
rs_tag_compound_get_chainv(h, self, ap) ==
    IF self = NULL \/ h.type[self] # RS_TAG_COMPOUND THEN NULL
    ELSE ChainLoop(h, self, ap)

\* rs_return_val_if_fail reports a self that is not a Compound
rs_tag_compound_get_chainv_log(h, self) ==
    self = NULL \/ h.type[self] # RS_TAG_COMPOUND

rs_tag_compound_get_chain(h, self, ap) == rs_tag_compound_get_chainv(h, self, ap)

\* -------------------------------------------------------------------- find
RECURSIVE rs_tag_find(_, _, _, _)
RECURSIVE FindEach(_, _, _, _)

\* the while loop over the iterator: the first non-NULL result of the children
FindEach(h, cells, name, stack) ==
    IF cells = <<>> THEN NULL
    ELSE LET found == rs_tag_find(h, Head(cells), name, stack)
         IN IF found # NULL THEN found ELSE FindEach(h, Tail(cells), name, stack)

\* a find that looks at the entries of the Compound given and no deeper
rs_tag_find_shallow(h, self, name, stack) ==
    IF self = NULL \/ h.type[self] # RS_TAG_COMPOUND THEN NULL
    ELSE rs_tag_compound_get(h, self, name)

\* stack: the tags whose rs_tag_find is in progress.  The function reads the heap
\* only, so a call entered again for a tag on the stack repeats itself without
\* end: the result is DIVERGE.
rs_tag_find(h, self, name, stack) ==
    IF self = NULL \/ h.type[self] = RS_TAG_END THEN NULL
    ELSE IF self \in stack THEN DIVERGE
    ELSE IF h.type[self] = RS_TAG_LIST
    THEN FindEach(h, h.items[self], name, stack \cup {self})
    ELSE IF h.type[self] = RS_TAG_COMPOUND
    THEN LET subtag == rs_tag_compound_get(h, self, name)
         IN IF subtag # NULL THEN subtag
            ELSE FindEach(h, Children(h, self), name, stack \cup {self})
    ELSE NULL

\* ----------------------------------------------------------------- factory
RECURSIVE NewListArgs(_, _, _, _)
RECURSIVE NewCompoundArgs(_, _, _)

\* case RS_TAG_LIST: each argument is inserted at the head, the first one sets
\* the element type before it
NewListArgs(h, self, tags, first) ==
    IF tags = <<>> THEN h
    ELSE LET h1 == IF first
                   THEN rs_tag_list_set_type(h, self, rs_tag_get_type(h, Head(tags)))
                   ELSE h
         IN NewListArgs(rs_tag_list_insert(h1, self, 0, Head(tags)), self, Tail(tags), FALSE)

\* case RS_TAG_COMPOUND: a key followed by NULL ends the call with NULL
NewCompoundArgs(h, self, pairs) ==
    IF pairs = <<>> THEN [h |-> h, ret |-> self]
    ELSE IF Head(pairs).value = NULL THEN [h |-> rs_critical(h), ret |-> NULL]
    ELSE NewCompoundArgs(rs_tag_compound_set(h, self, Head(pairs).key, Head(pairs).value),
                         self, Tail(pairs))

\* a factory that leaves the List in the order of its head insertions
rs_tag_newv_unreversed(h, kind, ap) ==
    LET n == rs_tag_new0(h, kind)
        self == n.ret
    IN IF kind \in IntKinds
       THEN [h |-> rs_tag_set_integer(n.h, self, SignExtend(Truncate(ap.val, 32), 32)),
             ret |-> self]
       ELSE IF kind = RS_TAG_LIST
       THEN [h |-> NewListArgs(n.h, self, ap.tags, TRUE), ret |-> self]
       ELSE IF kind = RS_TAG_COMPOUND
       THEN NewCompoundArgs(n.h, self, ap.pairs)
       ELSE n

\* ap: the variable arguments, [val, tags, pairs]; an integer is read as int
rs_tag_newv(h, kind, ap) ==
    LET n == rs_tag_new0(h, kind)
        self == n.ret
    IN IF kind \in IntKinds
       THEN [h |-> rs_tag_set_integer(n.h, self, SignExtend(Truncate(ap.val, 32), 32)),
             ret |-> self]
       ELSE IF kind = RS_TAG_LIST
       THEN [h |-> rs_tag_list_reverse(NewListArgs(n.h, self, ap.tags, TRUE), self),
             ret |-> self]
       ELSE IF kind = RS_TAG_COMPOUND
       THEN NewCompoundArgs(n.h, self, ap.pairs)
       ELSE n

\* ------------------------------------------------------------------- print
\* the streams of the process: stdout, and a file the client opened
Streams == {"stdout", "file"}
NoOutput == [f \in Streams |-> <<>>]

\* one fprintf or printf: its format, and its integer or string argument
Text(fmt) == [fmt |-> fmt, int |-> Zero64, str |-> ""]
Integer(v) == [fmt |-> "%Li", int |-> v, str |-> ""]
Label(name) == [fmt |-> "\"%s\": ", int |-> Zero64, str |-> name]

fprintf(p, stream, token) == [p EXCEPT !.out[stream] = Append(@, token)]
printf(p, token) == fprintf(p, "stdout", token)

RECURSIVE rs_tag_print(_, _, _, _, _)
RECURSIVE PrintEach(_, _, _, _, _, _, _)

\* the while loops over the iterators: cells are the [key, value] still to
\* print, i counts the cells printed, keyed tells the Compound loop
PrintEach(h, cells, keyed, length, dest, p, stack) ==
    IF cells = <<>> \/ ~p.returns THEN p
    ELSE LET i == length - Len(cells) + 1
             p1 == IF keyed THEN printf(p, Label(Head(cells).key)) ELSE p
             p2 == rs_tag_print(h, Head(cells).value, dest, p1, stack)
             p3 == IF p2.returns /\ i # length THEN fprintf(p2, dest, Text(", ")) ELSE p2
         IN PrintEach(h, Tail(cells), keyed, length, dest, p3, stack)

\* p: what has been written so far.  stack: the tags whose rs_tag_print is in
\* progress; a call entered again for one of them repeats itself without end
rs_tag_print(h, self, dest, p, stack) ==
    IF self = NULL \/ h.type[self] = RS_TAG_END THEN [p EXCEPT !.log = TRUE]
    ELSE IF dest = "NULL" THEN [p EXCEPT !.log = TRUE]
    ELSE IF self \in stack THEN [p EXCEPT !.returns = FALSE]
    ELSE IF h.type[self] \in IntKinds
    THEN fprintf(p, dest, Integer(rs_tag_get_integer(h, self)))
    ELSE IF h.type[self] = RS_TAG_LIST
    THEN LET cells == [k \in 1..Len(h.items[self]) |-> [key |-> "", value |-> h.items[self][k]]]
             p1 == fprintf(p, dest, Text("["))
             p2 == PrintEach(h, cells, FALSE, rs_tag_list_get_length(h, self), dest, p1,
                             stack \cup {self})
         IN IF p2.returns THEN fprintf(p2, dest, Text("]")) ELSE p2
    ELSE IF h.type[self] = RS_TAG_COMPOUND
    THEN LET p1 == fprintf(p, dest, Text("{"))
             p2 == PrintEach(h, h.compound[self], TRUE, rs_tag_compound_get_length(h, self),
                             dest, p1, stack \cup {self})
         IN IF p2.returns THEN fprintf(p2, dest, Text("}")) ELSE p2
    ELSE p

\* ------------------------------------------------------------------ region
RS_GZIP == "RS_GZIP"
RS_ZLIB == "RS_ZLIB"
RS_UNKNOWN_COMPRESSION == "RS_UNKNOWN_COMPRESSION"

\* the chunk slots (x, z) of the model: x in 0..MaxSlot, z = 0
Slots == 0..MaxSlot

\* a slot: empty, or a timestamp, a compression kind and a payload
Empty ==
    [present |-> FALSE, timestamp |-> 0, compression |-> RS_UNKNOWN_COMPRESSION,
     data |-> <<>>]

Payloads == {<<1>>, <<2, 3>>}
Timestamps == {0, 1}

Chunk(data, enc, timestamp) ==
    [present |-> TRUE, timestamp |-> timestamp, compression |-> enc, data |-> data]

\* a slot without a pending write, and a pending write of a chunk or of Empty
NoWrite == [staged |-> FALSE, chunk |-> Empty]
Staged(chunk) == [staged |-> TRUE, chunk |-> chunk]

NoFile == [exists |-> FALSE, chunks |-> [s \in Slots |-> Empty]]
EmptyFile == [exists |-> TRUE, chunks |-> [s \in Slots |-> Empty]]

\* no handle: the region is not open
NullRegion ==
    [open |-> FALSE, write |-> FALSE, slots |-> [s \in Slots |-> Empty],
     cached_writes |-> [s \in Slots |-> NoWrite]]

\* the handle over the mapped file: its slots, and no pending write
Mapped(f, write) ==
    [open |-> TRUE, write |-> write, slots |-> f.chunks,
     cached_writes |-> [s \in Slots |-> NoWrite]]

\* open creates a missing file in write mode, and fails without a file otherwise
rs_region_open(f, write) ==
    IF f.exists THEN [file |-> f, region |-> Mapped(f, write)]
    ELSE IF write THEN [file |-> EmptyFile, region |-> Mapped(EmptyFile, write)]
    ELSE [file |-> f, region |-> NullRegion]

\* releases the mapping and discards the pending writes
rs_region_close(self) == NullRegion

\* an accessor that reads the mapped file only
SlotOfMap(self, s) == self.slots[s]

\* the slot as the accessors see it: the pending write first, the mapped file
\* otherwise
SlotOf(self, s) ==
    IF self.cached_writes[s].staged THEN self.cached_writes[s].chunk ELSE self.slots[s]

rs_region_get_chunk_timestamp(self, s) ==
    IF ~self.open THEN 0 ELSE SlotOf(self, s).timestamp

rs_region_get_chunk_length(self, s) ==
    IF ~self.open THEN 0 ELSE Len(SlotOf(self, s).data)

rs_region_get_chunk_compression(self, s) ==
    IF ~self.open THEN RS_UNKNOWN_COMPRESSION ELSE SlotOf(self, s).compression

\* the payload, <<>> with present = FALSE for none
rs_region_get_chunk_data(self, s) ==
    IF ~self.open THEN [present |-> FALSE, data |-> <<>>]
    ELSE [present |-> SlotOf(self, s).present, data |-> SlotOf(self, s).data]

\* stages a write; a handle not opened for writing and a compression kind
\* other than gzip and zlib are refused
rs_region_set_chunk_data_full(self, s, data, enc, timestamp) ==
    IF ~self.open \/ ~self.write THEN self
    ELSE IF enc \notin {RS_GZIP, RS_ZLIB} THEN self
    ELSE [self EXCEPT !.cached_writes[s] = Staged(Chunk(data, enc, timestamp))]

\* now: the wall-clock seconds the engine supplies
rs_region_set_chunk_data(self, s, data, enc, now) ==
    rs_region_set_chunk_data_full(self, s, data, enc, now)

\* stages the slot to be emptied
rs_region_clear_chunk(self, s) ==
    IF ~self.open \/ ~self.write THEN self
    ELSE [self EXCEPT !.cached_writes[s] = Staged(Empty)]

\* write mode: lays the slots out again with the pending writes applied, maps
\* the new file and clears the pending writes; read-only: maps the file again
rs_region_flush(f, self) ==
    IF ~self.open THEN [file |-> f, region |-> self]
    ELSE IF ~self.write THEN [file |-> f, region |-> Mapped(f, FALSE)]
    ELSE LET g == [exists |-> TRUE, chunks |-> [s \in Slots |-> SlotOf(self, s)]]
         IN [file |-> g, region |-> Mapped(g, TRUE)]

\* ----------------------------------------------------------------- actions
Live == {t \in Tags : alloc[t] = "live"}

NoArgs == [val |-> Zero64, tags |-> <<>>, pairs |-> <<>>]

\* bit patterns the client passes to the integer setter
IntInputs == {<<511, 0, 0, 0>>}

\* int64_t values around every boundary of the four widths
LowLimbs == {0, 1, 127, 128, 255, 256, 32767, 32768, 65407, 65408, 65535}
HighLimbs == {0, 32767, 32768, 65535}
WideInputs == {<<a, b, c, d>> : a \in LowLimbs, b \in HighLimbs, c \in {0, 65535}, d \in HighLimbs}

TagSeqs == UNION {[1..n -> Live] : n \in 0..MaxArgs}
\* the names of a rs_tag_compound_get_chain call
NameSeqs == UNION {[1..n -> Keys] : n \in 0..MaxArgs}
\* nothing is read after a key that is followed by NULL
PairSeqs ==
    {p \in UNION {[1..n -> [key : Keys, value : Live \cup {NULL}]] : n \in 0..MaxArgs} :
        \A k \in 1..(Len(p) - 1) : p[k].value # NULL}

NoCall ==
    [op |-> "none", self |-> NULL, i |-> 0, key |-> "", tag |-> NULL, kind |-> RS_TAG_END,
     val |-> Zero64, ap |-> NoArgs, ret |-> NULL, iret |-> Zero64, log |-> FALSE,
     names |-> <<>>, slot |-> 0, chunk |-> Empty, write |-> FALSE, lost |-> {},
     dest |-> "NULL", out |-> NoOutput]

Min(a, b) == IF a < b THEN a ELSE b

\* the model's bounds: no count above MaxRef, no list longer than MaxLen
Bounded(h) ==
    \A t \in Tags : h.refcount[t] <= MaxRef /\ Len(h.items[t]) <= MaxLen

Commit(h, call) ==
    /\ Bounded(h)
    /\ alloc' = h.alloc
    /\ type' = h.type
    /\ refcount' = h.refcount
    /\ intval' = h.intval
    /\ ltype' = h.ltype
    /\ items' = h.items
    /\ compound' = h.compound
    /\ status' = h.status
    /\ last' = [call EXCEPT !.log = h.log]
    /\ UNCHANGED <<file, region>>

CanCall == status = "run"

\* a client that makes at most MaxCalls calls
Budget == calls < MaxCalls /\ calls' = calls + 1

\* a client that makes any number of calls
NoBudget == UNCHANGED calls
CanAlloc == \E t \in Tags : alloc[t] = "none"

\* rs_tag_new(kind, 0) for an integer, rs_tag_new(kind, NULL) for a container
TagNew(kinds) ==
    /\ CanCall /\ CanAlloc
    /\ \E k \in kinds :
         LET r == rs_tag_newv(Cur, k, NoArgs)
         IN Commit(r.h, [NoCall EXCEPT !.op = "new", !.kind = k, !.ret = r.ret])
    /\ UNCHANGED held

\* rs_tag_new(RS_TAG_BYTE, v)
TagNewInteger ==
    /\ CanCall /\ CanAlloc
    /\ \E v \in IntInputs :
         LET ap == [NoArgs EXCEPT !.val = v]
             r == rs_tag_newv(Cur, RS_TAG_BYTE, ap)
         IN Commit(r.h, [NoCall EXCEPT !.op = "new", !.kind = RS_TAG_BYTE, !.ap = ap,
                                        !.ret = r.ret])
    /\ UNCHANGED held

\* rs_tag_new(RS_TAG_LIST, tag1, ..., NULL)
TagNewList ==
    /\ CanCall /\ CanAlloc
    /\ \E tags \in TagSeqs :
         LET ap == [NoArgs EXCEPT !.tags = tags]
             r == rs_tag_newv(Cur, RS_TAG_LIST, ap)
         IN Commit(r.h, [NoCall EXCEPT !.op = "new", !.kind = RS_TAG_LIST, !.ap = ap,
                                        !.ret = r.ret])
    /\ UNCHANGED held

\* rs_tag_new(RS_TAG_COMPOUND, key1, tag1, ..., NULL)
TagNewCompound ==
    /\ CanCall /\ CanAlloc
    /\ \E pairs \in PairSeqs :
         LET ap == [NoArgs EXCEPT !.pairs = pairs]
             r == rs_tag_newv(Cur, RS_TAG_COMPOUND, ap)
         IN Commit(r.h, [NoCall EXCEPT !.op = "new", !.kind = RS_TAG_COMPOUND, !.ap = ap,
                                        !.ret = r.ret])
    /\ UNCHANGED held

TagRef ==
    /\ CanCall
    /\ \E t \in Live :
         /\ held[t] < MaxHeld
         /\ Commit(rs_tag_ref(Cur, t), [NoCall EXCEPT !.op = "ref", !.self = t])
         /\ held' = [held EXCEPT ![t] = @ + 1]

\* the client releases a reference it owns, or disposes of a floating tag
TagUnref ==
    /\ CanCall
    /\ \E t \in Live :
         /\ held[t] > 0 \/ refcount[t] = 0
         /\ Commit(rs_tag_unref(Cur, t, {}), [NoCall EXCEPT !.op = "unref", !.self = t])
         /\ held' = [held EXCEPT ![t] = IF @ > 0 THEN @ - 1 ELSE @]

TagFind ==
    /\ CanCall
    /\ \E t \in Live, name \in Keys :
         LET found == rs_tag_find(Cur, t, name, {})
             h == IF found = DIVERGE THEN [Cur EXCEPT !.status = "overflow"] ELSE Cur
         IN Commit(h, [NoCall EXCEPT !.op = "find", !.self = t, !.key = name,
                                      !.ret = found])
    /\ UNCHANGED held

TagGetInteger ==
    /\ CanCall
    /\ \E t \in Live :
         Commit([Cur EXCEPT !.log = rs_tag_get_integer_log(Cur, t)],
                [NoCall EXCEPT !.op = "get_integer", !.self = t,
                               !.iret = rs_tag_get_integer(Cur, t)])
    /\ UNCHANGED held

TagSetInteger(inputs) ==
    /\ CanCall
    /\ \E t \in Live, v \in inputs :
         Commit(rs_tag_set_integer(Cur, t, v),
                [NoCall EXCEPT !.op = "set_integer", !.self = t, !.val = v])
    /\ UNCHANGED held

TagListSetType ==
    /\ CanCall
    /\ \E t \in Live, k \in TreeKinds :
         Commit(rs_tag_list_set_type(Cur, t, k),
                [NoCall EXCEPT !.op = "list_set_type", !.self = t, !.kind = k])
    /\ UNCHANGED held

TagListInsert ==
    /\ CanCall
    /\ \E t \in Live, i \in Indexes, c \in Live :
         Commit(rs_tag_list_insert(Cur, t, i, c),
                [NoCall EXCEPT !.op = "list_insert", !.self = t, !.i = i, !.tag = c])
    /\ UNCHANGED held

TagListDelete ==
    /\ CanCall
    /\ \E t \in Live, i \in Indexes :
         Commit(rs_tag_list_delete(Cur, t, i),
                [NoCall EXCEPT !.op = "list_delete", !.self = t, !.i = i])
    /\ UNCHANGED held

TagListReverse ==
    /\ CanCall
    /\ \E t \in Live :
         Commit(rs_tag_list_reverse(Cur, t), [NoCall EXCEPT !.op = "list_reverse", !.self = t])
    /\ UNCHANGED held

TagCompoundSet ==
    /\ CanCall
    /\ \E t \in Live, k \in Keys, v \in Live :
         Commit(rs_tag_compound_set(Cur, t, k, v),
                [NoCall EXCEPT !.op = "compound_set", !.self = t, !.key = k, !.tag = v])
    /\ UNCHANGED held

TagCompoundDelete ==
    /\ CanCall
    /\ \E t \in Live, k \in Keys :
         Commit(rs_tag_compound_delete(Cur, t, k),
                [NoCall EXCEPT !.op = "compound_delete", !.self = t, !.key = k])
    /\ UNCHANGED held

\* rs_tag_compound_get_chain(t, name1, ..., NULL)
TagCompoundGetChain ==
    /\ CanCall
    /\ \E t \in Live, names \in NameSeqs :
         Commit([Cur EXCEPT !.log = rs_tag_compound_get_chainv_log(Cur, t)],
                [NoCall EXCEPT !.op = "get_chain", !.self = t, !.names = names,
                               !.ret = rs_tag_compound_get_chain(Cur, t, names)])
    /\ UNCHANGED held

\* rs_tag_print(t, dest), dest being stdout, a file of the client's, or NULL
TagPrint ==
    /\ CanCall
    /\ \E t \in Live, dest \in Streams \cup {"NULL"} :
         LET p == rs_tag_print(Cur, t, dest,
                               [out |-> NoOutput, log |-> FALSE, returns |-> TRUE], {})
             h == IF p.returns THEN [Cur EXCEPT !.log = p.log]
                  ELSE [Cur EXCEPT !.status = "overflow"]
         IN Commit(h, [NoCall EXCEPT !.op = "print", !.self = t, !.dest = dest,
                                      !.out = p.out])
    /\ UNCHANGED held

\* a call on the region: the tags are left alone.  lost: the slots whose pending
\* writes the last rs_region_close discarded
RegionCommit(f, r, call) ==
    /\ file' = f
    /\ region' = r
    /\ last' = call
    /\ UNCHANGED <<alloc, type, refcount, intval, ltype, items, compound, status, held>>

\* rs_region_open(path, write), by a client that has no open handle
RegionOpen ==
    /\ ~region.open
    /\ \E write \in BOOLEAN :
         LET r == rs_region_open(file, write)
         IN RegionCommit(r.file, r.region,
                [NoCall EXCEPT !.op = "open", !.write = write, !.lost = last.lost])

RegionClose ==
    /\ region.open
    /\ RegionCommit(file, rs_region_close(region),
            [NoCall EXCEPT !.op = "close",
                           !.lost = {s \in Slots : region.cached_writes[s].staged}])

\* rs_region_set_chunk_data_full(self, x, z, data, len, enc, timestamp)
RegionSetChunkDataFull ==
    /\ region.open
    /\ \E s \in Slots, data \in Payloads, ts \in Timestamps,
          enc \in {RS_GZIP, RS_ZLIB, RS_UNKNOWN_COMPRESSION} :
         RegionCommit(file, rs_region_set_chunk_data_full(region, s, data, enc, ts),
                [NoCall EXCEPT !.op = "set_chunk", !.slot = s,
                               !.chunk = Chunk(data, enc, ts)])

\* rs_region_set_chunk_data(self, x, z, data, len, enc): the engine supplies
\* the timestamp
RegionSetChunkData ==
    /\ region.open
    /\ \E s \in Slots, data \in Payloads, now \in Timestamps, enc \in {RS_GZIP, RS_ZLIB} :
         RegionCommit(file, rs_region_set_chunk_data(region, s, data, enc, now),
                [NoCall EXCEPT !.op = "set_chunk", !.slot = s,
                               !.chunk = Chunk(data, enc, now)])

RegionClearChunk ==
    /\ region.open
    /\ \E s \in Slots :
         RegionCommit(file, rs_region_clear_chunk(region, s),
                [NoCall EXCEPT !.op = "clear_chunk", !.slot = s])

RegionFlush ==
    /\ region.open
    /\ LET r == rs_region_flush(file, region)
       IN RegionCommit(r.file, r.region, [NoCall EXCEPT !.op = "flush"])

Init ==
    /\ alloc = EmptyHeap.alloc
    /\ type = EmptyHeap.type
    /\ refcount = EmptyHeap.refcount
    /\ intval = EmptyHeap.intval
    /\ ltype = EmptyHeap.ltype
    /\ items = EmptyHeap.items
    /\ compound = EmptyHeap.compound
    /\ status = "run"
    /\ calls = 0
    /\ held = [t \in Tags |-> 0]
    /\ last = NoCall
    /\ file = NoFile
    /\ region = NullRegion

Next ==
    \/ Budget /\ TagNew(TreeKinds)
    \/ Budget /\ TagRef
    \/ Budget /\ TagUnref
    \/ Budget /\ TagFind
    \/ Budget /\ TagGetInteger
    \/ Budget /\ TagSetInteger(IntInputs)
    \/ Budget /\ TagListSetType
    \/ Budget /\ TagListInsert
    \/ Budget /\ TagListDelete
    \/ Budget /\ TagListReverse
    \/ Budget /\ TagCompoundSet
    \/ Budget /\ TagCompoundDelete

\* every call of tag.c on up to MaxTags tags, MaxCalls calls deep
Spec == Init /\ [][Next]_vars

\* the List calls on integers and Lists, to any depth
NextList ==
    \/ NoBudget /\ TagNew({RS_TAG_BYTE, RS_TAG_LIST})
    \/ NoBudget /\ TagListSetType
    \/ NoBudget /\ TagListInsert
    \/ NoBudget /\ TagListDelete
    \/ NoBudget /\ TagListReverse

SpecList == Init /\ [][NextList]_vars

\* the Compound calls on integers and Compounds, to any depth
NextCompound ==
    \/ NoBudget /\ TagNew({RS_TAG_BYTE, RS_TAG_COMPOUND})
    \/ NoBudget /\ TagCompoundSet
    \/ NoBudget /\ TagCompoundDelete

SpecCompound == Init /\ [][NextCompound]_vars

\* trees built by nested rs_tag_new calls and changed by rs_tag_compound_set,
\* searched by rs_tag_find
NextFind ==
    \/ Budget /\ TagNewInteger
    \/ Budget /\ TagNewList
    \/ Budget /\ TagNewCompound
    \/ Budget /\ TagCompoundSet
    \/ Budget /\ TagFind

SpecFind == Init /\ [][NextFind]_vars

\* the factory alone: trees built by nested rs_tag_new calls
NextNew ==
    \/ NoBudget /\ TagNewInteger
    \/ NoBudget /\ TagNewList
    \/ NoBudget /\ TagNewCompound

SpecNew == Init /\ [][NextNew]_vars

\* one integer tag of any of the four kinds, set and read with values around
\* the boundaries of its width
InitInt ==
    \E k \in IntKinds :
        LET h == rs_tag_new0(EmptyHeap, k).h
        IN /\ alloc = h.alloc
           /\ type = h.type
           /\ refcount = h.refcount
           /\ intval = h.intval
           /\ ltype = h.ltype
           /\ items = h.items
           /\ compound = h.compound
           /\ status = "run"
           /\ calls = 0
           /\ held = [t \in Tags |-> 0]
           /\ last = NoCall
           /\ file = NoFile
           /\ region = NullRegion

NextInt ==
    \/ NoBudget /\ TagSetInteger(WideInputs)
    \/ NoBudget /\ TagGetInteger

SpecInt == InitInt /\ [][NextInt]_vars

\* trees built by nested rs_tag_new calls and changed by rs_tag_compound_set,
\* walked by rs_tag_compound_get_chain
NextChain ==
    \/ Budget /\ TagNewInteger
    \/ Budget /\ TagNewList
    \/ Budget /\ TagNewCompound
    \/ Budget /\ TagCompoundSet
    \/ Budget /\ TagCompoundGetChain

SpecChain == Init /\ [][NextChain]_vars

\* trees built by nested rs_tag_new calls and changed by rs_tag_compound_set,
\* printed by rs_tag_print
NextPrint ==
    \/ Budget /\ TagNewInteger
    \/ Budget /\ TagNewList
    \/ Budget /\ TagNewCompound
    \/ Budget /\ TagCompoundSet
    \/ Budget /\ TagPrint

SpecPrint == Init /\ [][NextPrint]_vars

\* one region file, opened, written, flushed, closed and opened again
NextRegion ==
    \/ NoBudget /\ RegionOpen
    \/ NoBudget /\ RegionClose
    \/ NoBudget /\ RegionSetChunkDataFull
    \/ NoBudget /\ RegionSetChunkData
    \/ NoBudget /\ RegionClearChunk
    \/ NoBudget /\ RegionFlush

SpecRegion == Init /\ [][NextRegion]_vars

\* ---------------------------------------------------------------- helpers
\* what rs_tag_compound_iterator_next yields, call after call
CompoundIter(h, self) == h.compound[self]

\* what rs_tag_list_iterator_next yields, call after call
ListIter(h, self) == h.items[self]

Range(f) == {f[k] : k \in DOMAIN f}

Kids(t) == Range(Children(Cur, t))

RECURSIVE Closure(_, _)
Closure(S, n) == IF n = 0 THEN S ELSE Closure(S \cup UNION {Kids(u) : u \in S}, n - 1)

\* the tags below t: its children and their descendants
Descendants(t) == Closure(Kids(t), MaxTags)

Acyclic == \A t \in Tags : t \notin Descendants(t)

Occurrences(seq, x) == Cardinality({k \in DOMAIN seq : seq[k] = x})

InsertAt(seq, k, x) == SubSeq(seq, 1, k) \o <<x>> \o SubSeq(seq, k + 1, Len(seq))

Without(nodes, key) == SelectSeq(nodes, LAMBDA n : n.key # key)

\* ------------------------------------------------------------------ claims

\* C1: removing an entry from a Compound releases the removed value once: after
\* rs_tag_compound_delete(c, k) on a present key, or rs_tag_compound_set(c, k, v2)
\* where k maps to v1, the count of v1 is one lower than before (v1 is freed at
\* zero), and in the set case the count of v2 is one higher.  (Stated for heaps
\* without cycles.)
C1_RemovalReleasesOnce ==
    [][LET c == last'.self
           v1 == rs_tag_compound_get(Cur, c, last'.key)
           v2 == last'.tag
       IN Acyclic /\ Acyclic' =>
          /\ (last'.op = "compound_delete" /\ v1 # NULL)
                => /\ refcount'[v1] = refcount[v1] - 1
                   /\ (refcount'[v1] = 0 => alloc'[v1] = "freed")
          /\ (last'.op = "compound_set" /\ v1 # NULL /\ v1 # v2)
                => /\ refcount'[v1] = refcount[v1] - 1
                   /\ (refcount'[v1] = 0 => alloc'[v1] = "freed")
                   /\ refcount'[v2] = refcount[v2] + 1
          /\ (last'.op = "compound_set" /\ v1 # NULL /\ v1 = v2)
                => refcount'[v1] = refcount[v1]]_vars

\* C2: no tag is reachable from itself through the child relation.
C2_NoCycle == Acyclic

\* C3: rs_tag_list_insert(list, i, child) with a child of the list's element
\* kind completes, on every list the empty one included, and puts the child at
\* position min(i, len), the other elements keeping their order.
C3_InsertClamps ==
    [][(/\ last'.op = "list_insert"
        /\ Acyclic
        /\ last'.tag # last'.self
        /\ type[last'.self] = RS_TAG_LIST
        /\ type[last'.tag] = ltype[last'.self])
       => /\ status' = "run"
          /\ items'[last'.self] =
                 InsertAt(items[last'.self], Min(last'.i, Len(items[last'.self])), last'.tag)]_vars


\* the live containers that hold x after the step, and the client's references
HeldAfter(x) ==
    \/ held'[x] > 0
    \/ \E p \in Tags : /\ alloc'[p] = "live"
                       /\ \/ \E k \in DOMAIN items'[p] : items'[p][k] = x
                          \/ \E k \in DOMAIN compound'[p] : compound'[p][k].value = x

Freed(p) == alloc[p] = "live" /\ alloc'[p] = "freed"

\* how often the containers freed by the step hold x
Released(x) ==
    LET F == {p \in Tags : Freed(p)}
        n[S \in SUBSET F] ==
            IF S = {} THEN 0
            ELSE LET p == CHOOSE q \in S : TRUE
                 IN Occurrences(Children(Cur, p), x) + n[S \ {p}]
    IN n[F]

\* C4: in an acyclic tree, when a container is freed each of its children is
\* released once: a child that another live container or a reference of the
\* client still holds survives with its count reduced, a child that only the
\* freed containers held is freed with them, and nothing is freed twice.
C4_FreeReleasesChildren ==
    [][(Acyclic /\ Acyclic')
       => /\ status' # "uaf"
          /\ \A p \in Tags, x \in Tags :
               (Freed(p) /\ x \in Kids(p))
               => IF HeldAfter(x)
                  THEN alloc'[x] = "live" /\ refcount'[x] = refcount[x] - Released(x)
                  ELSE alloc'[x] = "freed"]_vars

\* every child of a live List has the List's element kind
ListKindInv ==
    \A l \in Tags :
        (alloc[l] = "live" /\ type[l] = RS_TAG_LIST)
        => \A k \in DOMAIN ListIter(Cur, l) : type[ListIter(Cur, l)[k]] = ltype[l]

\* rs_tag_list_set_type leaves the element kind of a non-empty list as it is,
\* and an insert of a child of another kind leaves the list as it is
ListKindStep ==
    /\ (last'.op = "list_set_type" /\ items[last'.self] # <<>>)
          => ltype'[last'.self] = ltype[last'.self]
    /\ \A l \in Tags : items[l] # <<>> => ltype'[l] = ltype[l]
    /\ (last'.op = "list_insert" /\ type[last'.self] = RS_TAG_LIST
                                 /\ type[last'.tag] # ltype[last'.self])
          => items' = items

\* C5: in every reachable state every child of a List has the List's element
\* kind; the element kind does not change while the List is non-empty, and an
\* insert of a child of another kind is rejected.
C5_ListHomogeneous == []ListKindInv /\ [][ListKindStep]_vars

\* a rs_tag_list_set_type with another kind was tried on a non-empty list
C5_Witness ==
    /\ last.op = "list_set_type"
    /\ type[last.self] = RS_TAG_LIST
    /\ items[last.self] # <<>>
    /\ last.kind # ltype[last.self]
    /\ status = "run"


\* a Compound's names
NamesOf(nodes) == {nodes[k].key : k \in DOMAIN nodes}

\* every name of a live Compound is yielded once, and the length is the number
\* of names
CompoundNamesInv ==
    \A c \in Tags :
        (alloc[c] = "live" /\ type[c] = RS_TAG_COMPOUND)
        => /\ \A j, k \in DOMAIN CompoundIter(Cur, c) :
                  CompoundIter(Cur, c)[j].key = CompoundIter(Cur, c)[k].key => j = k
           /\ rs_tag_compound_get_length(Cur, c) = Cardinality(NamesOf(CompoundIter(Cur, c)))

\* a set yields the other entries in their order and then the entry set, a delete
\* yields the other entries in their order; no other Compound changes
CompoundOrderStep ==
    LET c == last'.self
    IN /\ (last'.op = "compound_set" /\ type[c] = RS_TAG_COMPOUND)
             => /\ compound'[c] =
                       Without(CompoundIter(Cur, c), last'.key)
                           \o <<[key |-> last'.key, value |-> last'.tag]>>
                /\ \A d \in Tags \ {c} : compound'[d] = compound[d]
       /\ (last'.op = "compound_delete" /\ type[c] = RS_TAG_COMPOUND)
             => /\ compound'[c] = Without(CompoundIter(Cur, c), last'.key)
                /\ \A d \in Tags \ {c} : compound'[d] = compound[d]
       /\ last'.op \notin {"compound_set", "compound_delete"} => compound' = compound

\* C6: iterating a Compound yields each name still present once, with the value
\* of its latest set, in insertion order, a set of an existing name moving it to
\* the end; the length is the number of names.
C6_CompoundOrder == []CompoundNamesInv /\ [][CompoundOrderStep]_vars

\* a set has put its entry last in a Compound of two entries, and the value set
\* carries a count that a replaced or deleted entry left behind
C6_Witness ==
    /\ last.op = "compound_set"
    /\ type[last.self] = RS_TAG_COMPOUND
    /\ Len(compound[last.self]) = 2
    /\ compound[last.self][2] = [key |-> last.key, value |-> last.tag]
    /\ refcount[last.tag] = 2
    /\ \A d \in Tags \ {last.self} : last.tag \notin Kids(d)
    /\ Occurrences(Children(Cur, last.self), last.tag) = 1

\* -------------------------------------------------------------- find order
Loop == [key |-> "", value |-> DIVERGE]

RECURSIVE WalkDepthFirst(_, _)
RECURSIVE WalkOwnFirst(_, _)
RECURSIVE Concat(_)

Concat(seqs) == IF seqs = <<>> THEN <<>> ELSE Head(seqs) \o Concat(Tail(seqs))

\* the entries in the order of a depth-first traversal that descends into each
\* child before it moves to the next sibling
WalkDepthFirst(t, stack) ==
    IF t \in stack THEN <<Loop>>
    ELSE IF type[t] = RS_TAG_LIST
    THEN Concat([k \in DOMAIN items[t] |-> WalkDepthFirst(items[t][k], stack \cup {t})])
    ELSE IF type[t] = RS_TAG_COMPOUND
    THEN Concat([k \in DOMAIN compound[t] |->
                    <<compound[t][k]>> \o WalkDepthFirst(compound[t][k].value, stack \cup {t})])
    ELSE <<>>

\* the entries in the order that visits all entries of a Compound before it
\* descends into the first of its children
WalkOwnFirst(t, stack) ==
    IF t \in stack THEN <<Loop>>
    ELSE IF type[t] = RS_TAG_LIST
    THEN Concat([k \in DOMAIN items[t] |-> WalkOwnFirst(items[t][k], stack \cup {t})])
    ELSE IF type[t] = RS_TAG_COMPOUND
    THEN compound[t]
         \o Concat([k \in DOMAIN compound[t] |->
                       WalkOwnFirst(compound[t][k].value, stack \cup {t})])
    ELSE <<>>

\* the value of the first entry named name; DIVERGE when the walk comes back to
\* a tag it is in before it meets one
FirstNamed(walk, name) ==
    LET hits == {k \in DOMAIN walk : walk[k].key = name \/ walk[k] = Loop}
    IN IF hits = {} THEN NULL
       ELSE walk[CHOOSE k \in hits : \A j \in hits : k <= j].value

\* C7 as stated: rs_tag_find returns the first entry named name that a
\* depth-first traversal of t, descending into each child before moving to its
\* next sibling, encounters (stated for trees without cycles).
C7_FindDepthFirst ==
    (last.op = "find" /\ Acyclic)
    => last.ret = FirstNamed(WalkDepthFirst(last.self, {}), last.key)

\* C7 amended: rs_tag_find returns the first entry named name in the order that
\* visits all entries of a Compound before descending into its children, and
\* List elements in order; NULL on a leaf and when no entry has the name; on a
\* tag that contains itself, a search that comes back to a tag it is in before it
\* meets the name does not return.
C7_FindOwnEntriesFirst ==
    last.op = "find"
    => /\ last.ret = FirstNamed(WalkOwnFirst(last.self, {}), last.key)
       /\ (last.ret = DIVERGE) = (status = "overflow")
       /\ (type[last.self] \notin {RS_TAG_LIST, RS_TAG_COMPOUND} => last.ret = NULL)
       /\ ((\A d \in Descendants(last.self) \cup {last.self} :
               last.key \notin NamesOf(compound[d])) /\ Acyclic
           => last.ret = NULL)

\* a find returned an entry of the Compound searched although a depth-first
\* traversal meets another entry of that name first, below an earlier entry
C7_Witness ==
    /\ last.op = "find"
    /\ Acyclic
    /\ last.ret \in Tags
    /\ last.ret # FirstNamed(WalkDepthFirst(last.self, {}), last.key)


\* ----------------------------------------------------------------- factory
\* the pairs before the first key that NULL follows
HasNullTag(pairs) == \E k \in DOMAIN pairs : pairs[k].value = NULL

\* the tag supplied last with a name
LastSupplied(pairs, name) ==
    pairs[CHOOSE k \in DOMAIN pairs :
              pairs[k].key = name /\ \A j \in DOMAIN pairs : pairs[j].key = name => j <= k].value

PairTags(pairs) == [k \in DOMAIN pairs |-> pairs[k].value]

\* C8 as stated: the factory builds a container that holds the supplied children
\* in argument order: a List has the kind of its first child and
\* rs_tag_list_get(i) is child i; in a Compound rs_tag_compound_get(name) is the
\* tag supplied with the name and the length is the number of names; every
\* stored child that was floating ends with count 1.  (Stated for children that
\* are floating and supplied once each.)
C8_FactoryHoldsArguments ==
    [][LET self == last'.ret
           ap == last'.ap
           args == ap.tags \o PairTags(ap.pairs)
       IN (/\ last'.op = "new" /\ self # NULL
           /\ \A j, k \in DOMAIN args : args[j] = args[k] => j = k
           /\ \A x \in Range(args) : refcount[x] = 0)
          => /\ last'.kind = RS_TAG_LIST
                  => /\ ap.tags # <<>> => ltype'[self] = type[ap.tags[1]]
                     /\ items'[self] = ap.tags
                     /\ \A x \in Range(ap.tags) : refcount[x] = 0 => refcount'[x] = 1
             /\ last'.kind = RS_TAG_COMPOUND
                  => /\ Len(compound'[self]) = Cardinality(NamesOf(ap.pairs))
                     /\ \A n \in NamesOf(ap.pairs) :
                            rs_tag_compound_get([Cur EXCEPT !.type = type', !.compound = compound'],
                                                self, n) = LastSupplied(ap.pairs, n)
                     /\ \A x \in Range(PairTags(ap.pairs)) :
                            refcount[x] = 0 => refcount'[x] = 1]_vars

\* C8 amended: a List has the kind of its first child and holds, in argument
\* order, the supplied children of that kind (a child of another kind is
\* rejected); in a Compound rs_tag_compound_get(name) is the tag supplied last
\* with the name, the entries are in the order of the last supply of each name
\* and the length is the number of names; the count of a child rises by one for
\* every time it was accepted, a pair that a later pair of the same name
\* replaces included; a key followed by NULL makes the factory return NULL.
C8_FactoryHoldsAccepted ==
    [][LET self == last'.ret
           ap == last'.ap
           kept == SelectSeq(ap.tags, LAMBDA x : type[x] = type[ap.tags[1]])
       IN /\ (last'.op = "new" /\ self # NULL /\ last'.kind = RS_TAG_LIST)
             => /\ ltype'[self] = IF ap.tags = <<>> THEN RS_TAG_END ELSE type[ap.tags[1]]
                /\ \A i \in 0..MaxArgs :
                       rs_tag_list_get([Cur EXCEPT !.type = type', !.items = items'], self, i)
                           = IF i < Len(kept) THEN kept[i + 1] ELSE NULL
                /\ \A x \in Tags \ {self} :
                       refcount'[x] = refcount[x] + Occurrences(kept, x)
          /\ (last'.op = "new" /\ self # NULL /\ last'.kind = RS_TAG_COMPOUND)
             => /\ ~HasNullTag(ap.pairs)
                /\ Len(compound'[self]) = Cardinality(NamesOf(ap.pairs))
                /\ \A n \in Keys :
                       rs_tag_compound_get([Cur EXCEPT !.type = type', !.compound = compound'],
                                           self, n)
                           = IF n \in NamesOf(ap.pairs) THEN LastSupplied(ap.pairs, n) ELSE NULL
                /\ \A j, k \in DOMAIN compound'[self] :
                       j < k => \E a, b \in DOMAIN ap.pairs :
                                   /\ a < b
                                   /\ ap.pairs[a] = compound'[self][j]
                                   /\ ap.pairs[b] = compound'[self][k]
                /\ \A x \in Tags \ {self} :
                       refcount'[x] = refcount[x] + Occurrences(PairTags(ap.pairs), x)
          /\ (last'.op = "new" /\ last'.kind = RS_TAG_COMPOUND /\ HasNullTag(ap.pairs))
             => self = NULL
          /\ (last'.op = "new" /\ self # NULL) => refcount'[self] = 0]_vars

\* the factory built a List of one child from two children of different kinds
C8_Witness ==
    /\ last.op = "new"
    /\ last.kind = RS_TAG_LIST
    /\ last.ret # NULL
    /\ Len(last.ap.tags) = 2
    /\ type[last.ap.tags[1]] # type[last.ap.tags[2]]
    /\ items[last.ret] = <<last.ap.tags[1]>>
    /\ ltype[last.ret] = type[last.ap.tags[1]]

\* ---------------------------------------------------------------- integers
\* arithmetic modulo 2^64 on the limbs
Add64(a, b) ==
    LET s1 == a[1] + b[1]
        s2 == a[2] + b[2] + s1 \div 65536
        s3 == a[3] + b[3] + s2 \div 65536
        s4 == a[4] + b[4] + s3 \div 65536
    IN <<s1 % 65536, s2 % 65536, s3 % 65536, s4 % 65536>>

Neg64(a) == Add64(<<65535 - a[1], 65535 - a[2], 65535 - a[3], 65535 - a[4]>>, <<1, 0, 0, 0>>)

Sub64(a, b) == Add64(a, Neg64(b))

\* 2^n for 0 <= n < 64
Pow64(n) == [k \in 1..4 |-> IF k = (n \div 16) + 1 THEN 2 ^ (n % 16) ELSE 0]

\* a mod 2^w for 0 < w <= 64
Mod2(a, w) ==
    [k \in 1..4 |-> IF 16 * k <= w THEN a[k]
                    ELSE IF 16 * (k - 1) >= w THEN 0
                    ELSE a[k] % (2 ^ (w - 16 * (k - 1)))]

\* ((v + 2^(w-1)) mod 2^w) - 2^(w-1)
Wrapped(v, w) == Sub64(Mod2(Add64(v, Pow64(w - 1)), w), Pow64(w - 1))

\* -2^(w-1) <= v < 2^(w-1): v + 2^(w-1) is below 2^w
InRange(v, w) == Mod2(Add64(v, Pow64(w - 1)), w) = Add64(v, Pow64(w - 1))

\* C9: for every integer kind of width w and every 64-bit value v,
\* rs_tag_get_integer after rs_tag_set_integer(t, v) returns
\* ((v + 2^(w-1)) mod 2^w) - 2^(w-1); a value in range is returned unchanged.
C9_IntegerWraps ==
    (last.op = "set_integer" /\ type[last.self] \in IntKinds)
    => LET w == Width(type[last.self])
       IN /\ rs_tag_get_integer(Cur, last.self) = Wrapped(last.val, w)
          /\ InRange(last.val, w) => rs_tag_get_integer(Cur, last.self) = last.val

\* 128 was set into a Byte and reads as -128
C9_Witness ==
    /\ last.op = "set_integer"
    /\ type[last.self] = RS_TAG_BYTE
    /\ last.val = <<128, 0, 0, 0>>
    /\ rs_tag_get_integer(Cur, last.self) = <<65408, 65535, 65535, 65535>>

\* ------------------------------------------------------ contract violations
\* the call made by the step breaks the contract of the function called
ContractViolation ==
    LET c == last'
    IN \/ c.op \in {"set_integer", "get_integer"} /\ type[c.self] \notin IntKinds
       \/ /\ c.op \in {"list_set_type", "list_insert", "list_delete", "list_reverse"}
          /\ type[c.self] # RS_TAG_LIST
       \/ c.op \in {"compound_set", "compound_delete"} /\ type[c.self] # RS_TAG_COMPOUND
       \/ c.op = "list_insert" /\ type[c.self] = RS_TAG_LIST /\ type[c.tag] # ltype[c.self]
       \/ c.op = "list_set_type" /\ type[c.self] = RS_TAG_LIST /\ items[c.self] # <<>>

\* C10: a contract violation on a tag operation is a non-fatal no-op: the
\* process goes on, a getter returns zero, and values, contents and counts are
\* as before; the violation is reported.
C10_ViolationIsNoOp ==
    [][ContractViolation
       => /\ status' = "run"
          /\ last'.log
          /\ last'.iret = Zero64
          /\ last'.ret = NULL
          /\ UNCHANGED <<alloc, type, refcount, intval, ltype, items, compound, held>>]_vars

\* an integer was set into a List that holds a child
C10_Witness ==
    /\ last.op = "set_integer"
    /\ type[last.self] = RS_TAG_LIST
    /\ items[last.self] # <<>>
    /\ last.log
    /\ status = "run"


\* ------------------------------------------------------------------- C11
\* the value of the entry named name in Compound t, NULL when there is none
Entry(t, name) ==
    IF \E k \in 1..Len(compound[t]) : compound[t][k].key = name
    THEN compound[t][CHOOSE k \in 1..Len(compound[t]) : compound[t][k].key = name].value
    ELSE NULL

\* p[0] = t, and p[k] is the entry named names[k] of the Compound p[k-1], for
\* the first n names
IsPath(p, t, names, n) ==
    /\ p[0] = t
    /\ \A k \in 1..n : type[p[k - 1]] = RS_TAG_COMPOUND /\ p[k] = Entry(p[k - 1], names[k])

Paths(n) == [0..n -> Tags]

\* C11: rs_tag_compound_get_chain(t, name1, ..., nameN) returns the tag reached
\* by looking up each name in turn, whatever its kind, when every name is
\* present at its level, and none when some name is missing at its level or
\* must be looked up in a tag that is not a Compound.  (Stated for N >= 1 on
\* any tag, and for N = 0 on a Compound, which is returned itself; names are
\* unique in every Compound here.)
C11_ChainWalks ==
    (last.op = "get_chain" /\ CompoundNamesInv
        /\ (last.names # <<>> \/ type[last.self] = RS_TAG_COMPOUND)) =>
        LET n == Len(last.names)
            full == {p \in Paths(n) : IsPath(p, last.self, last.names, n)}
        IN /\ full # {} => \A p \in full : last.ret = p[n]
           /\ full = {} => last.ret = NULL
           /\ status = "run"

\* a chain of two names that ends at an integer two levels below the Compound
C11_Witness ==
    /\ last.op = "get_chain"
    /\ Len(last.names) = 2
    /\ last.ret # NULL
    /\ type[last.ret] = RS_TAG_BYTE
    /\ last.ret # last.self

\* ------------------------------------------------------------------- C12
\* what the four accessors return for slot s of handle r
View(r, s) ==
    [timestamp |-> rs_region_get_chunk_timestamp(r, s),
     length |-> rs_region_get_chunk_length(r, s),
     compression |-> rs_region_get_chunk_compression(r, s),
     data |-> rs_region_get_chunk_data(r, s)]

\* what the accessors return for a slot that holds chunk c
ViewOf(c) ==
    [timestamp |-> c.timestamp, length |-> Len(c.data), compression |-> c.compression,
     data |-> [present |-> c.present, data |-> c.data]]

\* a handle without pending writes shows the file
RegionShowsFile ==
    (region.open /\ \A s \in Slots : ~region.cached_writes[s].staged) =>
        \A s \in Slots : View(region, s) = ViewOf(file.chunks[s])

RegionStep ==
    /\ (last'.op = "set_chunk" /\ region.write
            /\ last'.chunk.compression \in {RS_GZIP, RS_ZLIB}) =>
          /\ View(region', last'.slot) = ViewOf(last'.chunk)
          /\ \A s \in Slots \ {last'.slot} : View(region', s) = View(region, s)
          /\ file' = file
    /\ (last'.op = "clear_chunk" /\ region.write) =>
          /\ View(region', last'.slot) = ViewOf(Empty)
          /\ \A s \in Slots \ {last'.slot} : View(region', s) = View(region, s)
          /\ file' = file
    /\ (last'.op = "flush" /\ region.write) =>
          /\ \A s \in Slots : ViewOf(file'.chunks[s]) = View(region, s)
          /\ \A s \in Slots : View(region', s) = View(region, s)
    /\ last'.op = "close" => file' = file
    /\ (last'.op = "open" /\ region'.open) =>
          /\ file'.chunks = file.chunks
          /\ \A s \in Slots : View(region', s) = ViewOf(file.chunks[s])
    /\ file'.chunks # file.chunks => (last'.op = "flush" /\ region.write)

\* C12: on a Region opened for writing a set_chunk or clear_chunk on a slot is
\* returned by the data, length, timestamp and compression accessors of the
\* handle at once, before any flush, and the file changes only in a flush, which
\* writes what the accessors showed: a close leaves the file as it was, so a
\* handle opened after a close without flush shows every slot as it was before
\* the pending writes.
C12_ReadYourWrites == []RegionShowsFile /\ [][RegionStep]_vars

\* a slot was flushed to the file, written again, the handle was closed with the
\* write pending, and the handle opened next shows the flushed chunk
C12_Witness ==
    /\ last.op = "open"
    /\ region.open
    /\ \E s \in last.lost :
          /\ file.chunks[s].present
          /\ View(region, s) = ViewOf(file.chunks[s])

\* ------------------------------------------------------------------- C13
\* C13: rs_tag_print(t, sink) writes to the sink only: whatever the tag, Compounds
\* at any depth included, a stream other than the sink (stdout, when the sink is
\* a file) receives nothing.
C13_PrintToSinkOnly ==
    (last.op = "print" /\ last.dest \in Streams) =>
        \A f \in Streams \ {last.dest} : last.out[f] = <<>>

\* ------------------------------------------------------------------- C14
\* C14: rs_tag_find(t, name) returns, a tag or none, for every tag built by the
\* constructors and mutators.
C14_FindTerminates ==
    last.op = "find" => (last.ret # DIVERGE /\ status = "run")
====
